---- MODULE Spec2Model ----
(***************************************************************************)
(* Model of src/keyvalue.rs: a WritableHashMap and a ReadOnlyHashMap       *)
(* connected by a std::sync::mpsc channel of Action values.  The writer    *)
(* and the reader are two threads; every channel operation (send,          *)
(* try_recv) and every access to a private map is one atomic step, so the  *)
(* interleavings between the two handles are those of the program.         *)
(***************************************************************************)
EXTENDS Integers, Sequences, FiniteSets, TLC

\* ------------------------------------------------------------------ bounds
MaxOps == 3                \* mutating calls the writer issues in one run
MaxQueryOps == 2           \* the same, in the runs that also query the writer
MaxQueue == 1              \* queued Actions in the runs of an unceasing writer

Keys == {"a", "b"}         \* instances of the generic key type K
Vals == {1, 2}             \* instances of the generic value type V

\* ------------------------------------------------------------ data values
\* Option<V>: None is the empty sequence, Some(v) the one-element sequence.
None == << >>
Some(v) == << v >>

\* HashMap<K, V>: a function whose domain is the set of keys present.
EmptyMap == [x \in {} |-> 1]

MapContainsKey(m, k) == k \in DOMAIN m

MapGet(m, k) == IF k \in DOMAIN m THEN Some(m[k]) ELSE None

MapInsert(m, k, v) == [x \in (DOMAIN m) \cup {k} |-> IF x = k THEN v ELSE m[x]]

MapRemove(m, k) == [x \in (DOMAIN m) \ {k} |-> m[x]]

\* enum Action<K, V> { Add(K, V), Remove(K), Clear }; unused fields are padded.
Add(k, v) == [kind |-> "Add", k |-> k, v |-> v]
Remove(k) == [kind |-> "Remove", k |-> k, v |-> 0]
Clear == [kind |-> "Clear", k |-> "-", v |-> 0]

Actions == {Add(k, v) : k \in Keys, v \in Vals} \cup {Remove(k) : k \in Keys} \cup {Clear}

\* Result<T>: Ok(x) or Err(Disconnected).  val carries an Option<V> payload
\* and flag a bool payload; the field a result does not use is padded.
Ok(x) == [err |-> FALSE, flag |-> FALSE, val |-> x]
OkBool(b) == [err |-> FALSE, flag |-> b, val |-> None]
Disconnected == [err |-> TRUE, flag |-> FALSE, val |-> None]

\* ---------------------------------------------------------------- channel
\* Sender::send: succeeds exactly when the Receiver still exists (the
\* channel of channel() is unbounded, the queue length plays no part).
SendBounded(rxalive, q) == rxalive /\ Len(q) < 1
SendOk(rxalive, q) == rxalive

\* Receiver::try_recv: a queued value is handed out first, also after the
\* Sender is gone; Disconnected is reported only on an empty queue.
TryRecvEager(q, txalive) ==
    IF ~txalive THEN "Disconnected" ELSE IF q # << >> THEN "Ok" ELSE "Empty"
TryRecvNeverClosed(q, txalive) ==
    IF q # << >> THEN "Ok" ELSE "Empty"
TryRecv(q, txalive) ==
    IF q # << >> THEN "Ok" ELSE IF txalive THEN "Empty" ELSE "Disconnected"

\* What a successful try_recv hands out and what it leaves in the queue.
Received(q) == Head(q)
RemainingPeeked(q) == q
Remaining(q) == Tail(q)

\* ----------------------------------------------------------------- reader
\* The three Ok arms of the match in process_changes.
ApplyActionNoRemove(m, a) ==
    CASE a.kind = "Add" -> MapInsert(m, a.k, a.v)
      [] a.kind = "Remove" -> m
      [] a.kind = "Clear" -> EmptyMap
ApplyActionRemoveClears(m, a) ==
    CASE a.kind = "Add" -> MapInsert(m, a.k, a.v)
      [] a.kind = "Remove" -> IF a.k \in DOMAIN m THEN MapRemove(m, a.k) ELSE EmptyMap
      [] a.kind = "Clear" -> EmptyMap
ApplyAction(m, a) ==
    CASE a.kind = "Add" -> MapInsert(m, a.k, a.v)
      [] a.kind = "Remove" -> MapRemove(m, a.k)
      [] a.kind = "Clear" -> EmptyMap

\* The control flow of process_changes: the loop goes round after an Ok arm
\* and returns on Empty and on Disconnected.
AfterRecvOnce(res) == "done"
AfterRecvWaiting(res) == IF res = "Disconnected" THEN "done" ELSE "drain"
AfterRecv(res) == IF res = "Ok" THEN "drain" ELSE "done"

\* The answer computed after a successful drain.
ReadAnswer(m, op) ==
    IF op.kind = "get" THEN Ok(MapGet(m, op.k)) ELSE OkBool(MapContainsKey(m, op.k))

\* ----------------------------------------------------------------- writer
\* WritableHashMap::get / contains_key answer from the authoritative map.
WGetAbsent(m, k) == None
WGet(m, k) == MapGet(m, k)
WContainsKey(m, k) == MapContainsKey(m, k)

\* self.hashmap.clear() of WritableHashMap::clear.
ClearLocalKept(m) == m
ClearLocal(m) == EmptyMap

\* The value of self.hashmap.insert(k, v) / self.hashmap.remove(&k): the
\* value the map held for k before the call.
PreviousValueNone(m, k) == None
PreviousValue(m, k) == MapGet(m, k)

VARIABLES
    wmap,        \* WritableHashMap.hashmap
    rmap,        \* ReadOnlyHashMap.hashmap
    chan,        \* Actions sent and not yet received
    tx_alive,    \* the WritableHashMap (and its Sender) exists
    rx_alive,    \* the ReadOnlyHashMap (and its Receiver) exists
    w_pc,        \* writer: "idle", "insert_map", "remove_map", "clear_send", "done"
    w_op,        \* writer: the mutation in progress or last returned
    w_ret,       \* writer: result of the last returned mutation
    r_pc,        \* reader: "idle", "drain", "done"
    r_op,        \* reader: the query in progress or last returned
    r_ret,       \* reader: result of the last returned query
    \* history variables, read by no action
    sent,        \* every Action accepted by send, in send order
    napplied,    \* number of Actions the reader has received and applied
    w_count,     \* number of mutating calls started
    w_applied,   \* number of mutations applied to wmap
    w_before,    \* wmap when the current / last mutation was called
    w_rxAtCall,  \* rx_alive when the current / last mutation was called
    w_rxAtSend,  \* rx_alive when the current / last mutation did its send
    w_qAtSend,   \* Len(chan) when the current / last mutation did its send
    r_start,     \* Len(sent) when the current / last query was called
    r_end,       \* Len(sent) when the last query returned
    r_txAtCall,  \* tx_alive when the current / last query was called
    r_appliedAtCall, \* napplied when the current / last query was called
    \* the writer's own queries
    w_q,         \* the last get / contains_key of the Write Handle, its answer
                 \* and (history) whether the Read Handle existed then
    \* parameters of a run, changed by no action
    hist,        \* sent, napplied and the counts derived from them are recorded
    limit        \* mutating calls the writer may make; 0: as many as it likes

vars == << wmap, rmap, chan, tx_alive, rx_alive, w_pc, w_op, w_ret, r_pc, r_op,
           r_ret, sent, napplied, w_count, w_applied, w_before, w_rxAtCall, w_rxAtSend,
           w_qAtSend, r_start, r_end, r_txAtCall, r_appliedAtCall, w_q, hist,
           limit >>

wvars == << w_pc, w_op, w_ret, w_count, w_applied, w_before, w_rxAtCall, w_rxAtSend,
           w_qAtSend >>
rvars == << r_pc, r_op, r_ret, r_start, r_end, r_txAtCall, r_appliedAtCall >>

NoOp == [kind |-> "none", k |-> "-", v |-> 0]

NoQuery == [kind |-> "none", k |-> "-", flag |-> FALSE, val |-> None, rx |-> TRUE]

\* keyvalue(): one channel, two empty maps.
Created ==
    /\ wmap = EmptyMap
    /\ rmap = EmptyMap
    /\ chan = << >>
    /\ tx_alive = TRUE
    /\ rx_alive = TRUE
    /\ w_pc = "idle"
    /\ w_op = NoOp
    /\ w_ret = Ok(None)
    /\ r_pc = "idle"
    /\ r_op = NoOp
    /\ r_ret = Ok(None)
    /\ sent = << >>
    /\ napplied = 0
    /\ w_count = 0
    /\ w_applied = 0
    /\ w_before = EmptyMap
    /\ w_rxAtCall = TRUE
    /\ w_rxAtSend = TRUE
    /\ w_qAtSend = 0
    /\ r_start = 0
    /\ r_end = 0
    /\ r_txAtCall = TRUE
    /\ r_appliedAtCall = 0
    /\ w_q = NoQuery

Init == Created /\ hist = TRUE /\ limit = MaxOps

\* The same program with the writer's own queries in the run.
QueryInit == Created /\ hist = TRUE /\ limit = MaxQueryOps

\* The same program with a writer that never has to stop; no history is kept.
LiveInit == Created /\ hist = FALSE /\ limit = 0

WriterFree == tx_alive /\ w_pc \in {"idle", "done"}
ReaderFree == rx_alive /\ r_pc \in {"idle", "done"}

\* self.tx.send(a): the Action is queued when the Receiver exists.
SendUnlessEmptyClear(a) ==
    /\ w_rxAtSend' = rx_alive
    /\ w_qAtSend' = IF hist THEN Len(chan) ELSE 0
    /\ IF SendOk(rx_alive, chan) /\ ~(a.kind = "Clear" /\ w_before = EmptyMap)
          THEN chan' = Append(chan, a) /\ sent' = IF hist THEN Append(sent, a) ELSE sent
          ELSE UNCHANGED << chan, sent >>
Send(a) ==
    /\ w_rxAtSend' = rx_alive
    /\ w_qAtSend' = IF hist THEN Len(chan) ELSE 0
    /\ IF SendOk(rx_alive, chan)
          THEN chan' = Append(chan, a) /\ sent' = IF hist THEN Append(sent, a) ELSE sent
          ELSE UNCHANGED << chan, sent >>

WCall(op) ==
    /\ WriterFree
    /\ IF limit = 0 THEN Len(chan) < MaxQueue ELSE w_count < limit
    /\ w_count' = IF limit = 0 THEN w_count ELSE w_count + 1
    /\ w_op' = op
    /\ w_before' = wmap
    /\ w_rxAtCall' = rx_alive

\* insert, first half: self.tx.send(Action::Add(k.clone(), v.clone()))
InsertSend(k, v) ==
    /\ WCall([kind |-> "insert", k |-> k, v |-> v])
    /\ Send(Add(k, v))
    /\ IF SendOk(rx_alive, chan)
          THEN w_pc' = "insert_map" /\ UNCHANGED w_ret
          ELSE w_pc' = "done" /\ w_ret' = Disconnected
    /\ UNCHANGED << wmap, rmap, tx_alive, rx_alive, napplied, w_applied >>
    /\ UNCHANGED rvars
    /\ UNCHANGED << w_q, hist, limit >>

\* insert, second half: .map(|_| self.hashmap.insert(k, v))
InsertMap ==
    /\ w_pc = "insert_map"
    /\ w_ret' = Ok(PreviousValue(wmap, w_op.k))
    /\ wmap' = MapInsert(wmap, w_op.k, w_op.v)
    /\ w_pc' = "done"
    /\ w_applied' = IF hist THEN w_applied + 1 ELSE w_applied
    /\ UNCHANGED << rmap, chan, tx_alive, rx_alive, sent, napplied >>
    /\ UNCHANGED << w_op, w_count, w_before, w_rxAtCall, w_rxAtSend, w_qAtSend >>
    /\ UNCHANGED rvars
    /\ UNCHANGED << w_q, hist, limit >>

\* remove, first half: self.tx.send(Action::Remove(k.clone()))
RemoveSend(k) ==
    /\ WCall([kind |-> "remove", k |-> k, v |-> 0])
    /\ Send(Remove(k))
    /\ IF SendOk(rx_alive, chan)
          THEN w_pc' = "remove_map" /\ UNCHANGED w_ret
          ELSE w_pc' = "done" /\ w_ret' = Disconnected
    /\ UNCHANGED << wmap, rmap, tx_alive, rx_alive, napplied, w_applied >>
    /\ UNCHANGED rvars
    /\ UNCHANGED << w_q, hist, limit >>

\* remove, second half: .map(|_| self.hashmap.remove(&k))
RemoveMap ==
    /\ w_pc = "remove_map"
    /\ w_ret' = Ok(PreviousValue(wmap, w_op.k))
    /\ wmap' = MapRemove(wmap, w_op.k)
    /\ w_pc' = "done"
    /\ w_applied' = IF hist THEN w_applied + 1 ELSE w_applied
    /\ UNCHANGED << rmap, chan, tx_alive, rx_alive, sent, napplied >>
    /\ UNCHANGED << w_op, w_count, w_before, w_rxAtCall, w_rxAtSend, w_qAtSend >>
    /\ UNCHANGED rvars
    /\ UNCHANGED << w_q, hist, limit >>

\* clear, first half: self.hashmap.clear()
ClearMap ==
    /\ WCall([kind |-> "clear", k |-> "-", v |-> 0])
    /\ wmap' = ClearLocal(wmap)
    /\ w_pc' = "clear_send"
    /\ w_applied' = IF hist THEN w_applied + 1 ELSE w_applied
    /\ UNCHANGED << rmap, chan, tx_alive, rx_alive, sent, napplied >>
    /\ UNCHANGED << w_ret, w_rxAtSend, w_qAtSend >>
    /\ UNCHANGED rvars
    /\ UNCHANGED << w_q, hist, limit >>

\* clear, second half: self.tx.send(Action::Clear).map_err(..)
ClearSend ==
    /\ w_pc = "clear_send"
    /\ Send(Clear)
    /\ w_ret' = IF SendOk(rx_alive, chan) THEN Ok(None) ELSE Disconnected
    /\ w_pc' = "done"
    /\ UNCHANGED << wmap, rmap, tx_alive, rx_alive, napplied, w_applied >>
    /\ UNCHANGED << w_op, w_count, w_before, w_rxAtCall >>
    /\ UNCHANGED rvars
    /\ UNCHANGED << w_q, hist, limit >>

\* The WritableHashMap goes out of scope: its Sender is dropped.
DropWriter ==
    /\ WriterFree
    /\ tx_alive' = FALSE
    /\ UNCHANGED << wmap, rmap, chan, rx_alive, sent, napplied >>
    /\ UNCHANGED wvars
    /\ UNCHANGED rvars
    /\ UNCHANGED << w_q, hist, limit >>

\* get / contains_key is called: process_changes starts.
ReadCall(kind, k) ==
    /\ ReaderFree
    /\ r_op' = [kind |-> kind, k |-> k, v |-> 0]
    /\ r_pc' = "drain"
    /\ r_start' = Len(sent)
    /\ r_txAtCall' = tx_alive
    /\ r_appliedAtCall' = napplied
    /\ UNCHANGED << wmap, rmap, chan, tx_alive, rx_alive, sent, napplied >>
    /\ UNCHANGED << r_ret, r_end >>
    /\ UNCHANGED wvars
    /\ UNCHANGED << w_q, hist, limit >>

\* One iteration of the loop of process_changes.  A received Action is
\* applied to the replica; on Empty the query is answered from the replica,
\* on Disconnected the error is propagated by `?`.
RecvStep ==
    /\ r_pc = "drain"
    /\ LET res == TryRecv(chan, tx_alive) IN
       /\ IF res = "Ok"
             THEN /\ rmap' = ApplyAction(rmap, Received(chan))
                  /\ chan' = Remaining(chan)
                  /\ napplied' = IF hist THEN napplied + 1 ELSE napplied
             ELSE UNCHANGED << rmap, chan, napplied >>
       /\ r_pc' = AfterRecv(res)
       /\ IF r_pc' = "done"
             THEN /\ r_ret' = IF res = "Disconnected"
                                 THEN Disconnected
                                 ELSE ReadAnswer(rmap', r_op)
                  /\ r_end' = Len(sent)
             ELSE UNCHANGED << r_ret, r_end >>
    /\ UNCHANGED << wmap, tx_alive, rx_alive, sent >>
    /\ UNCHANGED << r_op, r_start, r_txAtCall, r_appliedAtCall >>
    /\ UNCHANGED wvars
    /\ UNCHANGED << w_q, hist, limit >>

\* The ReadOnlyHashMap goes out of scope: its Receiver is dropped and the
\* queued Actions with it.
DropReader ==
    /\ ReaderFree
    /\ rx_alive' = FALSE
    /\ chan' = << >>
    /\ UNCHANGED << wmap, rmap, tx_alive, sent, napplied >>
    /\ UNCHANGED wvars
    /\ UNCHANGED rvars
    /\ UNCHANGED << w_q, hist, limit >>

Next ==
    \/ \E k \in Keys, v \in Vals : InsertSend(k, v)
    \/ InsertMap
    \/ \E k \in Keys : RemoveSend(k)
    \/ RemoveMap
    \/ ClearMap
    \/ ClearSend
    \/ DropWriter
    \/ \E kind \in {"get", "contains_key"}, k \in Keys : ReadCall(kind, k)
    \/ RecvStep
    \/ DropReader

Spec == Init /\ [][Next]_vars

\* WritableHashMap::get: self.hashmap.get(k)
WGetCall(k) ==
    /\ WriterFree
    /\ w_q' = [kind |-> "get", k |-> k, flag |-> FALSE, val |-> WGet(wmap, k),
               rx |-> rx_alive]
    /\ UNCHANGED << wmap, rmap, chan, tx_alive, rx_alive, sent, napplied >>
    /\ UNCHANGED wvars
    /\ UNCHANGED rvars
    /\ UNCHANGED << hist, limit >>

\* WritableHashMap::contains_key: self.hashmap.contains_key(k)
WContainsKeyCall(k) ==
    /\ WriterFree
    /\ w_q' = [kind |-> "contains_key", k |-> k, flag |-> WContainsKey(wmap, k),
               val |-> None, rx |-> rx_alive]
    /\ UNCHANGED << wmap, rmap, chan, tx_alive, rx_alive, sent, napplied >>
    /\ UNCHANGED wvars
    /\ UNCHANGED rvars
    /\ UNCHANGED << hist, limit >>

QueryNext ==
    \/ Next
    \/ \E k \in Keys : WGetCall(k)
    \/ \E k \in Keys : WContainsKeyCall(k)

\* Both handles with every operation, the writer's queries included.
QuerySpec == QueryInit /\ [][QueryNext]_vars

\* The reader's thread is scheduled: a drain that can take a step takes it
\* (every such step takes an Action off the queue or returns).  Nothing
\* obliges the writer to call anything, nor to stop calling.
LiveSpec == LiveInit /\ [][Next]_vars /\ WF_<< chan, r_pc >>(RecvStep)

\* ------------------------------------------------------------- replaying
\* The effect of one Mutation Record on a map: Insert overwrites, Remove
\* deletes the key if present, ClearAll empties the map.
Effect(m, a) ==
    IF a.kind = "Clear" THEN [x \in {} |-> 1]
    ELSE IF a.kind = "Remove" THEN [x \in (DOMAIN m) \ {a.k} |-> m[x]]
    ELSE [x \in (DOMAIN m) \cup {a.k} |-> IF x = a.k THEN a.v ELSE m[x]]

\* The map obtained by applying a sequence of records, in order, to the
\* empty map.
RECURSIVE ReplayFrom(_, _)
ReplayFrom(m, s) == IF s = << >> THEN m ELSE ReplayFrom(Effect(m, Head(s)), Tail(s))

Replay(s) == ReplayFrom([x \in {} |-> 1], s)

Prefix(s, n) == SubSeq(s, 1, n)

Pending == SubSeq(sent, napplied + 1, Len(sent))

\* ----------------------------------------------------------------- claims

\* C1: in every reachable state -- in the middle of a drain and after either
\* handle is destroyed included -- the replica map is the result of applying,
\* in send order and to the empty map, exactly the first napplied records
\* sent; while the reader exists the records still queued are exactly the
\* remaining ones, in send order (none skipped, duplicated or reordered).
C1_CausalPrefix ==
    /\ napplied \in 0..Len(sent)
    /\ rmap = Replay(Prefix(sent, napplied))
    /\ rx_alive => chan = Pending

\* A drain has applied the first of two records whose effects differ.
C1_Witness ==
    /\ r_pc = "drain"
    /\ napplied >= 1
    /\ napplied < Len(sent)
    /\ rmap # EmptyMap
    /\ rmap # Replay(sent)

\* C2: when a Read Handle get or contains_key has returned, every record
\* sent before that query was called has been applied to the replica.
C2_ReadCatchUp ==
    r_pc = "done" =>
        /\ napplied \in r_start..Len(sent)
        /\ rmap = Replay(Prefix(sent, napplied))

\* A query that found records pending returned while the writer sent more.
C2_Witness ==
    /\ r_pc = "done"
    /\ r_appliedAtCall < r_start
    /\ r_start < r_end
    /\ napplied >= r_start

\* The last query returned, the Read Handle exists, the writer is between
\* calls (or gone) and nothing was sent since the query was called.
ReadAfterAllSent ==
    /\ r_pc = "done"
    /\ rx_alive
    /\ w_pc \in {"idle", "done"}
    /\ Len(sent) = r_start

\* C3: a read made after all of the writer's mutations were sent leaves the
\* replica equal to the authoritative map, and, the Write Handle existing,
\* its answer is the Write Handle's own get / contains_key for that key.
C3_CausalReplay ==
    ReadAfterAllSent =>
        /\ rmap = wmap
        /\ tx_alive =>
              /\ ~r_ret.err
              /\ r_op.kind = "get" => r_ret.val = WGet(wmap, r_op.k)
              /\ r_op.kind = "contains_key" => r_ret.flag = WContainsKey(wmap, r_op.k)

\* Two mutations were sent undrained, then the read found the queried key.
C3_Witness ==
    /\ ReadAfterAllSent
    /\ tx_alive
    /\ r_appliedAtCall = 0
    /\ r_start >= 2
    /\ r_op.kind = "get"
    /\ r_ret.val # None

\* A Write Handle mutation of the given kind returned, and the Read Handle
\* had been dropped before it was called.
ReturnedAfterReaderDrop(kind) ==
    /\ w_pc = "done"
    /\ w_op.kind = kind
    /\ ~w_rxAtCall

\* C4: after the Read Handle was dropped, insert(k, v) returns Disconnected
\* and the Write Handle's map maps k to v afterwards.
C4_InsertCommitsLocally ==
    ReturnedAfterReaderDrop("insert") =>
        /\ w_ret = Disconnected
        /\ WGet(wmap, w_op.k) = Some(w_op.v)

\* C5: after the Read Handle was dropped, remove(k) of a key present in the
\* authoritative map returns Disconnected and k is no longer present.
C5_RemoveCommitsLocally ==
    (ReturnedAfterReaderDrop("remove") /\ w_op.k \in DOMAIN w_before) =>
        /\ w_ret = Disconnected
        /\ ~WContainsKey(wmap, w_op.k)

\* C6: after the Read Handle was dropped, clear() returns Disconnected and
\* the Write Handle's map is empty afterwards.
C6_ClearCommitsLocally ==
    ReturnedAfterReaderDrop("clear") =>
        /\ w_ret = Disconnected
        /\ wmap = EmptyMap

\* clear() was called on a non-empty map after the reader was dropped.
C6_Witness ==
    /\ ReturnedAfterReaderDrop("clear")
    /\ w_before # EmptyMap

\* C7: a Read Handle query called after the Write Handle was dropped applies
\* every record sent and not yet drained, in order, and then fails with
\* Disconnected; the replica keeps everything applied.
C7_ReaderDisconnection ==
    (r_pc = "done" /\ ~r_txAtCall) =>
        /\ r_ret = Disconnected
        /\ napplied = Len(sent)
        /\ rmap = Replay(sent)
        /\ rx_alive => chan = << >>

\* The failing query had two records to drain and left a non-empty replica.
C7_Witness ==
    /\ r_pc = "done"
    /\ ~r_txAtCall
    /\ r_appliedAtCall + 2 <= Len(sent)
    /\ rmap # EmptyMap
    /\ r_ret = Disconnected

\* C8: a mutation returns Disconnected if and only if the Read Handle had
\* been destroyed when it did its send, however many records were pending.
C8_FailsOnlyOnDeadReader ==
    /\ w_pc = "done" => (w_ret.err <=> ~w_rxAtSend)
    /\ w_pc \in {"insert_map", "remove_map"} => w_rxAtSend

\* A mutation succeeded with records already pending in the channel.
C8_Witness ==
    /\ w_pc = "done"
    /\ ~w_ret.err
    /\ w_rxAtSend
    /\ w_qAtSend >= 2

\* C9: a successful insert(k, v) returns the value the authoritative map
\* held for k before the call and the map then maps k to v; a successful
\* remove(k) returns the value held before the call and k is then absent.
C9_ReturnValues ==
    (w_pc = "done" /\ ~w_ret.err) =>
        /\ w_op.kind = "insert" =>
              /\ w_ret.val = IF w_op.k \in DOMAIN w_before
                                THEN << w_before[w_op.k] >> ELSE << >>
              /\ w_op.k \in DOMAIN wmap
              /\ wmap[w_op.k] = w_op.v
        /\ w_op.kind = "remove" =>
              /\ w_ret.val = IF w_op.k \in DOMAIN w_before
                                THEN << w_before[w_op.k] >> ELSE << >>
              /\ w_op.k \notin DOMAIN wmap

\* A successful insert overwrote a different value and returned it.
C9_Witness ==
    /\ w_pc = "done"
    /\ ~w_ret.err
    /\ w_op.kind = "insert"
    /\ w_op.k \in DOMAIN w_before
    /\ w_before[w_op.k] # w_op.v
    /\ w_ret.val = << w_before[w_op.k] >>

\* C10: a drain that ran when exactly the first r_start records had been
\* sent, with no send during it, leaves the replica equal to the result of
\* applying exactly those records, whatever the writer sends afterwards.
C10_StalenessBound ==
    (r_pc = "done" /\ r_end = r_start) =>
        rmap = Replay(Prefix(sent, r_start))

\* The drain applied two records, and a later record changed the writer's map.
C10_Witness ==
    /\ r_pc = "done"
    /\ r_end = r_start
    /\ r_appliedAtCall + 2 <= r_start
    /\ r_start < Len(sent)
    /\ rmap # EmptyMap
    /\ rmap # Replay(sent)

\* A step that queues one more Action: a successful send.
SendStep == Len(chan') > Len(chan)

\* C11 as stated: a Read Handle query that has started returns, whatever the
\* Write Handle does meanwhile.
C11_ReadReturns == (r_pc = "drain") ~> (r_pc = "done")

\* C11 as amended: a query that never returns is one during which the writer
\* sends again and again; once the writer sends no more, the query returns.
\* The drain never waits on an empty channel.
C11_ReadReturnsUnlessFed ==
    <>[](r_pc = "drain") => []<><< SendStep >>_chan

\* A query returned a value while the writer was in the middle of a mutation
\* whose Action it had already applied.
C11_Witness ==
    /\ r_pc = "done"
    /\ ~r_ret.err
    /\ w_pc = "insert_map"
    /\ chan = << >>
    /\ rmap # wmap

\* C12: a Write Handle get / contains_key answers from the authoritative
\* map -- also after the Read Handle was destroyed --, sends nothing and leaves
\* the authoritative map, the channel, the replica and both handles as they
\* were.
C12_WriterQueriesLocal ==
    [][ w_q' # w_q =>
          /\ w_q'.kind = "get" =>
                w_q'.val = IF w_q'.k \in DOMAIN wmap THEN << wmap[w_q'.k] >> ELSE << >>
          /\ w_q'.kind = "contains_key" => w_q'.flag = (w_q'.k \in DOMAIN wmap)
          /\ w_q'.kind \in {"get", "contains_key"}
          /\ UNCHANGED << wmap, chan, rmap, sent, napplied, tx_alive, rx_alive >>
          /\ UNCHANGED << w_pc, w_op, w_ret, r_pc, r_op, r_ret >> ]_vars

\* The writer found a value with get after the Read Handle was destroyed
\* and with a record it had sent never drained.
C12_Witness ==
    /\ w_q.kind = "get"
    /\ ~w_q.rx
    /\ w_q.val # None
    /\ napplied < Len(sent)

\* A step of a Read Handle query: the call or one iteration of the drain.
ReadStep == << r_pc, napplied >>' # << r_pc, napplied >>

\* C13: a step of a Read Handle query, successful or failing, leaves the
\* Write Handle as it was and sends nothing; it changes the replica only by
\* applying the record it takes off the queue, which it consumes.
C13_ReadLeavesWriter ==
    [][ ReadStep =>
          /\ UNCHANGED << wmap, sent, tx_alive, rx_alive, w_q >>
          /\ UNCHANGED wvars
          /\ IF napplied' = napplied
                THEN chan' = chan /\ rmap' = rmap
                ELSE chan # << >> /\ chan' = Tail(chan) ]_vars

\* A query that drained a record has failed with Disconnected, the writer's
\* map being non-empty.
C13_Witness ==
    /\ r_pc = "done"
    /\ r_ret.err
    /\ r_appliedAtCall < napplied
    /\ wmap # EmptyMap
    /\ rmap = wmap

\* clear() returned, having been called on an empty authoritative map.
ClearedEmpty ==
    /\ w_pc = "done"
    /\ w_op.kind = "clear"
    /\ w_before = EmptyMap

\* C14: clear() on an already empty authoritative map leaves it empty and,
\* the Read Handle existing, still forwards a ClearAll record; draining a
\* ClearAll record on an empty replica leaves the replica empty.
C14_IdempotentClear ==
    /\ [](ClearedEmpty =>
            /\ wmap = EmptyMap
            /\ w_rxAtSend =>
                  /\ ~w_ret.err
                  /\ Len(sent) >= 1
                  /\ sent[Len(sent)].kind = "Clear")
    /\ [][ (napplied' = napplied + 1 /\ sent[napplied'].kind = "Clear"
              /\ rmap = EmptyMap) => rmap' = EmptyMap ]_vars

\* The only mutation so far is a clear() of the empty map, and its record
\* has been drained.
C14_Witness ==
    /\ ClearedEmpty
    /\ Len(sent) = 1
    /\ sent[1].kind = "Clear"
    /\ napplied = 1
    /\ rmap = EmptyMap

\* remove(k) returned, the Read Handle existing, for a key that was absent.
RemovedAbsent ==
    /\ w_pc = "done"
    /\ w_op.kind = "remove"
    /\ w_op.k \notin DOMAIN w_before
    /\ w_rxAtCall

\* C15: with the Read Handle alive, remove(k) of an absent key succeeds with
\* no previous value and leaves the authoritative map unchanged; its record
\* follows records whose replay is that map, and draining a Remove of a key
\* absent after the preceding records leaves the replica as it was after them.
C15_RemoveAbsent ==
    /\ [](RemovedAbsent =>
            /\ ~w_ret.err
            /\ w_ret.val = << >>
            /\ wmap = w_before
            /\ Len(sent) >= 1
            /\ sent[Len(sent)].kind = "Remove"
            /\ sent[Len(sent)].k = w_op.k
            /\ w_before = Replay(Prefix(sent, Len(sent) - 1)))
    /\ [][ (napplied' = napplied + 1 /\ sent[napplied'].kind = "Remove"
              /\ sent[napplied'].k \notin DOMAIN Replay(Prefix(sent, napplied)))
            => rmap' = Replay(Prefix(sent, napplied)) ]_vars

\* The record of a remove of an absent key was drained onto a non-empty
\* replica.
C15_Witness ==
    /\ RemovedAbsent
    /\ napplied = Len(sent)
    /\ r_appliedAtCall < napplied
    /\ rmap # EmptyMap
    /\ rmap = wmap

\* C16: with both handles alive, a record is receivable only once its change
\* is in the authoritative map, and the replica is never ahead of the writer:
\* the records sent, and so the records applied to the replica, are never
\* more than the mutations applied to the authoritative map.
C16_LocalFirst ==
    (tx_alive /\ rx_alive) =>
        /\ Len(sent) <= w_applied
        /\ napplied <= w_applied

\* C17: a Read Handle query called after the Write Handle was destroyed, and
\* any query that returns after it was destroyed, returns Disconnected, also
\* for a key that is in the replica; once a query has returned Disconnected
\* every later one does and the replica no longer changes.
C17_NoValueAfterWriterGone ==
    /\ []((r_pc = "done" /\ ~r_txAtCall) => r_ret.err)
    /\ [][ (~tx_alive /\ r_pc = "drain" /\ r_pc' = "done") => r_ret'.err ]_vars
    /\ [][ r_ret.err => (r_ret'.err /\ rmap' = rmap) ]_vars

\* The first query after the writer was destroyed drained a record and
\* failed although its key is in the replica.
C17_Witness ==
    /\ r_pc = "done"
    /\ ~r_txAtCall
    /\ r_ret.err
    /\ r_appliedAtCall < napplied
    /\ r_op.k \in DOMAIN rmap

\* C18: when a Read Handle query has returned Disconnected the Write Handle
\* is gone, no record is pending and the replica equals the authoritative
\* map as the Write Handle left it.
C18_DisconnectedMeansCaughtUp ==
    r_ret.err =>
        /\ ~tx_alive
        /\ napplied = Len(sent)
        /\ rx_alive => chan = << >>
        /\ rmap = wmap

\* The failing query was called while the writer still existed, drained
\* three records and found the writer gone.
C18_Witness ==
    /\ r_ret.err
    /\ r_pc = "done"
    /\ r_txAtCall
    /\ r_appliedAtCall + 3 <= napplied
    /\ wmap # EmptyMap

====
